---- MODULE Spec2Model ----
(***************************************************************************)
(* State-machine model of the search client in frontend/src/App.tsx:       *)
(* the App component (form state, triggerSearch, the rendered Search       *)
(* button, error line and result cards), the Settings component inside     *)
(* the drawer (its two inputs, the shared config ref and local storage),   *)
(* and the single network call made by search().                           *)
(*                                                                         *)
(* React is modelled by what it does to this program: a state setter of    *)
(* App re-renders App before the next event is handled, a state setter of  *)
(* Settings re-renders Settings only, and a write to config.current        *)
(* re-renders nothing.  The last rendering of App is kept in `rendered`,   *)
(* because the user acts on what was rendered, not on the state.           *)
(***************************************************************************)
EXTENDS Naturals, Sequences, FiniteSets, TLC

VARIABLES
    localStorage,   \* browser storage: api_key, collection_name (NULL when absent)
    config,         \* config.current of App's useRef
    query,          \* App state
    sql,            \* App state
    results,        \* App state
    loading,        \* App state
    error,          \* App state (NULL or a message)
    isOpen,         \* App state of useDisclosure (Settings drawer)
    settings,       \* state of the mounted Settings component
    rendered,       \* what App's last render produced
    buttonMode,     \* what the Button component does with a plain `disabled`
    network,        \* calls of search() that have not settled
    fetched,        \* history: the calls of search() (count, latest data, repeats)
    triggers,       \* history: runs of triggerSearch that passed its check
    lastSettled,    \* history: how the most recent search ended, once it has
    justStarted     \* history: no handler has run since App was constructed

vars == <<localStorage, config, query, sql, results, loading, error, isOpen,
          settings, rendered, buttonMode, network, fetched, triggers,
          lastSettled, justStarted>>

appState == <<query, sql, results, loading, error, isOpen>>

----------------------------------------------------------------------------
(* Bounds and value domains *)

MaxFetches == 2
MaxPending == 2
MaxResults == 2

NULL == "<null>"

KeyValues == {"", "key"}
CollectionValues == {"", "unsplash"}
QueryValues == {"", "road"}
SqlValues == {"", "WHERE"}

PhotoIds == {"p1", "p2"}

FetchErrors == {[name |-> "TypeError", message |-> "Failed to fetch"]}
ParseErrors == {[name |-> "SyntaxError", message |-> "Unexpected token"]}

\* App passes `disabled` to Chakra's Button, whose own prop for this is
\* isDisabled.  Whether a plain `disabled` reaches the DOM button depends on
\* the version of the component the build installs, which the repository
\* does not pin in its sources: both outcomes are taken.
ButtonModes == {"forwarded", "ignored"}

API_KEY_KEY == "api_key"
COLLECTION_NAME_KEY == "collection_name"
WIDTH == 320

----------------------------------------------------------------------------
(* JavaScript helpers *)

\* !s for a string s: only the empty string is falsy.
Truthy(s) == s # ""

\* a ?? b
Coalesce(a, b) == IF a = NULL THEN b ELSE a

\* Omit the i-th element of a sequence.
RemoveAt(s, i) == [j \in 1..(Len(s) - 1) |-> IF j < i THEN s[j] ELSE s[j + 1]]

----------------------------------------------------------------------------
(* Responses of the backend *)

\* One result record of a QueryResponse.
ResultRecord(id) ==
    [photo_id |-> id, ai_description |-> "about " \o id]

\* Sequences of records with pairwise distinct photo_id (React keys), of
\* length at most MaxResults.
RECURSIVE RecordLists(_)
RecordLists(n) ==
    IF n = 0 THEN {<<>>}
    ELSE LET shorter == RecordLists(n - 1)
         IN  shorter \cup
             {Append(l, ResultRecord(id)) : l \in shorter, id \in PhotoIds}

DistinctIds(l) ==
    \A i, j \in 1..Len(l) : i # j => l[i].photo_id # l[j].photo_id

\* The value of response.results: an array, or undefined when the parsed
\* body has no such field.
UndefinedResults == [defined |-> FALSE, list |-> <<>>]
ArrayResults(l) == [defined |-> TRUE, list |-> l]

ResponseResults ==
    {ArrayResults(l) : l \in {m \in RecordLists(MaxResults) : DistinctIds(m)}}
        \cup {UndefinedResults}

----------------------------------------------------------------------------
(* Rendering of App *)

\* JSON.stringify(result, null, 4) of a result record.
Stringify(r) ==
    "{\n    \"photo_id\": \"" \o r.photo_id
        \o "\",\n    \"ai_description\": \"" \o r.ai_description \o "\"\n}"

\* The props of one ImageCard.
ImageCard(result) ==
    [key         |-> result.photo_id,
     photoId     |-> result.photo_id,
     photoUrl    |-> "https://unsplash.com/photos/" \o result.photo_id
                         \o "/download?w=" \o ToString(WIDTH),
     description |-> result.ai_description,
     extra       |-> Stringify(result)]

\* results !== undefined && results.map(...)
ResultCards(res) ==
    IF res.defined
    THEN [i \in 1..Len(res.list) |-> ImageCard(res.list[i])]
    ELSE <<>>

\* The triggerSearch closure before the first render.
NoCallback == [deps |-> <<>>, query |-> "", sql |-> ""]

\* useCallback with an empty dependency list: the first closure is kept.
UseCallback_NoDeps(prev, q, s) ==
    IF prev.deps # <<>>
    THEN prev
    ELSE [deps |-> <<q, s>>, query |-> q, sql |-> s]

\* useCallback(async () => {...}, [query, sql]): the closure of an earlier
\* render is kept while the dependencies are unchanged.
UseCallback(prev, q, s) ==
    IF prev.deps = <<q, s>>
    THEN prev
    ELSE [deps |-> <<q, s>>, query |-> q, sql |-> s]

\* {error && <div>{error}</div>}
ErrorLine(err) == IF err = NULL \/ ~Truthy(err) THEN NULL ELSE err

\* One render of App.
Render(cfg, q, s, res, ld, err, prevCallback) ==
    [disabled      |-> ld \/ ~Truthy(cfg.apiKey) \/ ~Truthy(cfg.collectionName),
     spinner       |-> ld,
     error         |-> ErrorLine(err),
     cards         |-> ResultCards(res),
     triggerSearch |-> UseCallback(prevCallback, q, s)]

\* App re-renders after a handler changed its state.
Rerender ==
    rendered' = Render(config', query', sql', results', loading', error',
                       rendered.triggerSearch)

----------------------------------------------------------------------------
(* Construction *)

\* A config that starts blank instead of being read from the storage.
InitialConfig_Blank(ls) ==
    [apiKey |-> "", collectionName |-> ""]

\* useRef<Config>({apiKey: localStorage.getItem(...) ?? "", ...})
InitialConfig(ls) ==
    [apiKey         |-> Coalesce(ls[API_KEY_KEY], ""),
     collectionName |-> Coalesce(ls[COLLECTION_NAME_KEY], "")]

NoSettings == [mounted |-> FALSE, apiKey |-> "", collectionName |-> ""]

\* No call of search() has been made.
NoFetch ==
    [count    |-> 0,
     last     |-> [starpoint_api_key |-> NULL, starpoint_collection_name |-> NULL,
                   query_to_embed |-> NULL, sql |-> NULL],
     repeated |-> FALSE]

NotSettled == [kind |-> "none", message |-> NULL, results |-> UndefinedResults]

\* The first render of App over a given local storage.
Mount ==
    /\ config' = InitialConfig(localStorage')
    /\ query' = ""
    /\ sql' = ""
    /\ results' = ArrayResults(<<>>)
    /\ loading' = FALSE
    /\ error' = NULL
    /\ isOpen' = FALSE
    /\ settings' = NoSettings
    /\ rendered' = Render(config', "", "", ArrayResults(<<>>), FALSE, NULL,
                          NoCallback)

StoredValues ==
    {[api_key |-> k, collection_name |-> c] :
        k \in KeyValues \cup {NULL}, c \in CollectionValues \cup {NULL}}

Init ==
    /\ localStorage \in StoredValues
    /\ config = InitialConfig(localStorage)
    /\ query = ""
    /\ sql = ""
    /\ results = ArrayResults(<<>>)
    /\ loading = FALSE
    /\ error = NULL
    /\ isOpen = FALSE
    /\ settings = NoSettings
    /\ rendered = Render(config, "", "", ArrayResults(<<>>), FALSE, NULL,
                         NoCallback)
    /\ network = <<>>
    /\ fetched = NoFetch
    /\ triggers = 0
    /\ lastSettled = NotSettled
    /\ justStarted = TRUE
    /\ buttonMode \in ButtonModes

\* The page is loaded again: the storage survives, everything else is rebuilt
\* and the calls still pending belong to a page that no longer exists.
Reload ==
    /\ localStorage' = localStorage
    /\ Mount
    /\ network' = <<>>
    /\ lastSettled' = NotSettled
    /\ justStarted' = TRUE
    /\ buttonMode' = buttonMode
    /\ UNCHANGED <<fetched, triggers>>

----------------------------------------------------------------------------
(* The form of App *)

\* onChange of the natural-language textarea: setQuery(e.target.value)
SetQuery(v) ==
    /\ v # query
    /\ query' = v
    /\ UNCHANGED <<localStorage, config, sql, results, loading, error, isOpen,
                   settings, network, fetched, triggers, lastSettled>>
    /\ justStarted' = FALSE
    /\ buttonMode' = buttonMode
    /\ Rerender

\* onChange of the SQL filter textarea: setSql(e.target.value)
SetSql(v) ==
    /\ v # sql
    /\ sql' = v
    /\ UNCHANGED <<localStorage, config, query, results, loading, error,
                   isOpen, settings, network, fetched, triggers, lastSettled>>
    /\ justStarted' = FALSE
    /\ buttonMode' = buttonMode
    /\ Rerender

----------------------------------------------------------------------------
(* The Settings drawer *)

\* onOpen: the drawer opens and mounts Settings, whose two states start
\* from config.current.
OnOpen ==
    /\ ~isOpen
    /\ isOpen' = TRUE
    /\ settings' = [mounted        |-> TRUE,
                    apiKey         |-> config.apiKey,
                    collectionName |-> config.collectionName]
    /\ UNCHANGED <<localStorage, config, query, sql, results, loading, error,
                   network, fetched, triggers, lastSettled>>
    /\ justStarted' = FALSE
    /\ buttonMode' = buttonMode
    /\ Rerender

\* onClose: the drawer closes and unmounts Settings.
OnClose ==
    /\ isOpen
    /\ isOpen' = FALSE
    /\ settings' = NoSettings
    /\ UNCHANGED <<localStorage, config, query, sql, results, loading, error,
                   network, fetched, triggers, lastSettled>>
    /\ justStarted' = FALSE
    /\ buttonMode' = buttonMode
    /\ Rerender

\* onChange of the API key input without the localStorage.setItem call.
OnChangeApiKey_NotPersisted(v) ==
    /\ settings.mounted
    /\ v # settings.apiKey
    /\ settings' = [settings EXCEPT !.apiKey = v]
    /\ config' = [config EXCEPT !.apiKey = v]
    /\ justStarted' = FALSE
    /\ buttonMode' = buttonMode
    /\ UNCHANGED <<localStorage, appState, rendered, network, fetched,
                   triggers, lastSettled>>

\* onChange of the API key input.  Only Settings re-renders.
OnChangeApiKey(v) ==
    /\ settings.mounted
    /\ v # settings.apiKey
    /\ settings' = [settings EXCEPT !.apiKey = v]
    /\ config' = [config EXCEPT !.apiKey = v]
    /\ localStorage' = [localStorage EXCEPT ![API_KEY_KEY] = v]
    /\ justStarted' = FALSE
    /\ buttonMode' = buttonMode
    /\ UNCHANGED <<appState, rendered, network, fetched, triggers,
                   lastSettled>>

\* onChange of the collection name input.  Only Settings re-renders.
OnChangeCollectionName(v) ==
    /\ settings.mounted
    /\ v # settings.collectionName
    /\ settings' = [settings EXCEPT !.collectionName = v]
    /\ config' = [config EXCEPT !.collectionName = v]
    /\ localStorage' = [localStorage EXCEPT ![COLLECTION_NAME_KEY] = v]
    /\ justStarted' = FALSE
    /\ buttonMode' = buttonMode
    /\ UNCHANGED <<appState, rendered, network, fetched, triggers,
                   lastSettled>>

----------------------------------------------------------------------------
(* Searching *)

\* The data object triggerSearch hands to search(): the key and collection
\* are read from the ref when it runs, query and sql from its closure.
SearchData(callback) ==
    [starpoint_api_key         |-> config.apiKey,
     starpoint_collection_name |-> config.collectionName,
     query_to_embed            |-> callback.query,
     sql                       |-> callback.sql]

\* search(data) up to its first await: the POST is on its way.
Search(data) ==
    /\ network' = Append(network, [data |-> data, stage |-> "fetch"])
    /\ fetched' = [count    |-> fetched.count + 1,
                   last     |-> data,
                   repeated |-> fetched.repeated
                                   \/ (fetched.count > 0 /\ fetched.last = data)]

\* triggerSearch without its check of the key and the collection name.
TriggerSearch_Unchecked ==
    /\ fetched.count < MaxFetches
    /\ Len(network) < MaxPending
    /\ triggers' = triggers + 1
    /\ loading' = TRUE
    /\ error' = NULL
    /\ Search(SearchData(rendered.triggerSearch))
    /\ lastSettled' = NotSettled
    /\ justStarted' = FALSE
    /\ buttonMode' = buttonMode
    /\ UNCHANGED <<localStorage, config, query, sql, results, isOpen,
                   settings>>
    /\ Rerender

\* triggerSearch that answers a repeated search from the results it has.
TriggerSearch_Cached ==
    IF ~Truthy(config.apiKey) \/ ~Truthy(config.collectionName)
    THEN UNCHANGED vars
    ELSE /\ fetched.count < MaxFetches
         /\ Len(network) < MaxPending
         /\ triggers' = triggers + 1
         /\ error' = NULL
         /\ IF fetched.count > 0
               /\ fetched.last = SearchData(rendered.triggerSearch)
            THEN UNCHANGED <<loading, network, fetched, lastSettled>>
            ELSE /\ loading' = TRUE
                 /\ Search(SearchData(rendered.triggerSearch))
                 /\ lastSettled' = NotSettled
         /\ justStarted' = FALSE
         /\ buttonMode' = buttonMode
         /\ UNCHANGED <<localStorage, config, query, sql, results, isOpen,
                        settings>>
         /\ Rerender

\* triggerSearch that also asks for a query text.
TriggerSearch_NeedsQuery ==
    IF \/ ~Truthy(config.apiKey) \/ ~Truthy(config.collectionName)
       \/ ~Truthy(rendered.triggerSearch.query)
    THEN UNCHANGED vars
    ELSE /\ fetched.count < MaxFetches
         /\ Len(network) < MaxPending
         /\ triggers' = triggers + 1
         /\ loading' = TRUE
         /\ error' = NULL
         /\ Search(SearchData(rendered.triggerSearch))
         /\ lastSettled' = NotSettled
         /\ justStarted' = FALSE
         /\ buttonMode' = buttonMode
         /\ UNCHANGED <<localStorage, config, query, sql, results, isOpen,
                        settings>>
         /\ Rerender

\* triggerSearch up to its await.
TriggerSearch ==
    IF ~Truthy(config.apiKey) \/ ~Truthy(config.collectionName)
    THEN UNCHANGED vars
    ELSE /\ fetched.count < MaxFetches
         /\ Len(network) < MaxPending
         /\ triggers' = triggers + 1
         /\ loading' = TRUE
         /\ error' = NULL
         /\ Search(SearchData(rendered.triggerSearch))
         /\ lastSettled' = NotSettled
         /\ justStarted' = FALSE
         /\ buttonMode' = buttonMode
         /\ UNCHANGED <<localStorage, config, query, sql, results, isOpen,
                        settings>>
         /\ Rerender

\* The Search button in the DOM is disabled when App rendered it with
\* disabled={true} and the Button component forwards that prop.
ButtonDisabled == buttonMode = "forwarded" /\ rendered.disabled

\* A click on the Search button as App last rendered it.  The button's
\* disabled flag is the one computed by that render: an edit in the drawer
\* changes config.current without rendering App again, so the flag may lag
\* behind the ref until the next render.
ClickSearch ==
    /\ ~ButtonDisabled
    /\ TriggerSearch

\* A catch block that reports a fixed text.
Catch_FixedText(e) == error' = "Search failed"

\* catch (e) { setError(err.message) }
Catch(e) == error' = e.message

\* finally { setLoading(false) }
Finally == loading' = FALSE

\* fetch() rejects and setLoading(false) is reached on the success path
\* only.
FetchRejects_LeavesLoading(i, e) ==
    /\ network[i].stage = "fetch"
    /\ network' = RemoveAt(network, i)
    /\ Catch(e)
    /\ lastSettled' = [kind |-> "failed", message |-> e.message,
                       results |-> UndefinedResults]
    /\ justStarted' = FALSE
    /\ buttonMode' = buttonMode
    /\ UNCHANGED <<localStorage, config, query, sql, results, loading,
                   isOpen, settings, fetched, triggers>>
    /\ Rerender

\* fetch() rejects: triggerSearch resumes in its catch block.
FetchRejects(i, e) ==
    /\ network[i].stage = "fetch"
    /\ network' = RemoveAt(network, i)
    /\ Catch(e)
    /\ Finally
    /\ lastSettled' = [kind |-> "failed", message |-> e.message,
                       results |-> UndefinedResults]
    /\ justStarted' = FALSE
    /\ buttonMode' = buttonMode
    /\ UNCHANGED <<localStorage, config, query, sql, results, isOpen,
                   settings, fetched, triggers>>
    /\ Rerender

\* fetch() resolves with a Response: search() goes on to response.json().
FetchResolves(i) ==
    /\ network[i].stage = "fetch"
    /\ network' = [network EXCEPT ![i].stage = "json"]
    /\ justStarted' = FALSE
    /\ buttonMode' = buttonMode
    /\ UNCHANGED <<localStorage, config, appState, settings, rendered,
                   fetched, triggers, lastSettled>>

\* response.json() rejects and the catch block also empties the results.
JsonRejects_ClearsResults(i, e) ==
    /\ network[i].stage = "json"
    /\ network' = RemoveAt(network, i)
    /\ Catch(e)
    /\ results' = ArrayResults(<<>>)
    /\ Finally
    /\ lastSettled' = [kind |-> "failed", message |-> e.message,
                       results |-> UndefinedResults]
    /\ justStarted' = FALSE
    /\ buttonMode' = buttonMode
    /\ UNCHANGED <<localStorage, config, query, sql, isOpen,
                   settings, fetched, triggers>>
    /\ Rerender

\* response.json() rejects: the body is not JSON.
JsonRejects(i, e) ==
    /\ network[i].stage = "json"
    /\ network' = RemoveAt(network, i)
    /\ Catch(e)
    /\ Finally
    /\ lastSettled' = [kind |-> "failed", message |-> e.message,
                       results |-> UndefinedResults]
    /\ justStarted' = FALSE
    /\ buttonMode' = buttonMode
    /\ UNCHANGED <<localStorage, config, query, sql, results, isOpen,
                   settings, fetched, triggers>>
    /\ Rerender

\* response.json() resolves and the records are added to those shown.
JsonResolves_Appends(i, res) ==
    /\ network[i].stage = "json"
    /\ network' = RemoveAt(network, i)
    /\ results' = IF res.defined /\ results.defined
                  THEN ArrayResults(results.list \o res.list)
                  ELSE res
    /\ Finally
    /\ lastSettled' = [kind |-> "ok", message |-> NULL, results |-> res]
    /\ justStarted' = FALSE
    /\ buttonMode' = buttonMode
    /\ UNCHANGED <<localStorage, config, query, sql, error, isOpen,
                   settings, fetched, triggers>>
    /\ Rerender

\* response.json() resolves: setResults(response.results), then finally.
JsonResolves(i, res) ==
    /\ network[i].stage = "json"
    /\ network' = RemoveAt(network, i)
    /\ results' = res
    /\ Finally
    /\ lastSettled' = [kind |-> "ok", message |-> NULL, results |-> res]
    /\ justStarted' = FALSE
    /\ buttonMode' = buttonMode
    /\ UNCHANGED <<localStorage, config, query, sql, error, isOpen,
                   settings, fetched, triggers>>
    /\ Rerender

----------------------------------------------------------------------------

Next ==
    \/ Reload
    \/ \E v \in QueryValues : SetQuery(v)
    \/ \E v \in SqlValues : SetSql(v)
    \/ OnOpen
    \/ OnClose
    \/ \E v \in KeyValues : OnChangeApiKey(v)
    \/ \E v \in CollectionValues : OnChangeCollectionName(v)
    \/ ClickSearch
    \/ \E i \in 1..Len(network) :
        \/ \E e \in FetchErrors : FetchRejects(i, e)
        \/ FetchResolves(i)
        \/ \E e \in ParseErrors : JsonRejects(i, e)
        \/ \E res \in ResponseResults : JsonResolves(i, res)

Spec == Init /\ [][Next]_vars

\* One step of a pending call of search(): its fetch or its response.json()
\* resolves or rejects.
Settle ==
    \E i \in 1..Len(network) :
        \/ \E e \in FetchErrors : FetchRejects(i, e)
        \/ FetchResolves(i)
        \/ \E e \in ParseErrors : JsonRejects(i, e)
        \/ \E res \in ResponseResults : JsonResolves(i, res)

\* The program over a network on which every pending promise is settled
\* in the end.
LiveSpec == Init /\ [][Next]_vars /\ WF_vars(Settle)

----------------------------------------------------------------------------
(* Properties *)

\* What the form holds now: the data a search triggered in this state is
\* expected to carry.
FormNow ==
    [starpoint_api_key         |-> config.apiKey,
     starpoint_collection_name |-> config.collectionName,
     query_to_embed            |-> query,
     sql                       |-> sql]

\* C1: at most one call of search() is unsettled at any time.
SingleInFlight == Len(network) <= 1

\* Where the Button component forwards `disabled`, at most one call of
\* search() is unsettled at any time.
SingleInFlightWhenForwarded ==
    buttonMode = "forwarded" => Len(network) <= 1

\* C2: every request that was issued carries a non-empty API key and a
\* non-empty collection name.
NonEmptyCredentials ==
    /\ fetched.count > 0 =>
        /\ fetched.last.starpoint_api_key # ""
        /\ fetched.last.starpoint_collection_name # ""
    /\ \A i \in 1..Len(network) :
        /\ network[i].data.starpoint_api_key # ""
        /\ network[i].data.starpoint_collection_name # ""

\* After a search, the key was deleted in the drawer while the Search
\* button is still rendered enabled: only triggerSearch's check stands
\* between a click and a request.
NonEmptyCredentialsWitness ==
    /\ fetched.count > 0
    /\ config.apiKey = ""
    /\ ~rendered.disabled

\* C3: once a search has failed, the error state is the message of the
\* error that was caught, loading is over and the message is on screen.
FailureMessageShown ==
    lastSettled.kind = "failed" =>
        /\ error = lastSettled.message
        /\ rendered.error = lastSettled.message
        /\ ~rendered.spinner

\* A search failed while parsing the body, after an earlier one failed in
\* fetch.
FailureMessageShownWitness ==
    /\ fetched.count = 2
    /\ lastSettled.kind = "failed"
    /\ lastSettled.message = "Unexpected token"
    /\ rendered.error = "Unexpected token"

\* C4: loading is true exactly while a call of search() is unsettled.
LoadingIffInFlight == loading <=> (network # <<>>)

\* Where the Button component forwards `disabled`, loading is true exactly
\* while a call of search() is unsettled.
LoadingIffInFlightWhenForwarded ==
    buttonMode = "forwarded" => (loading <=> (network # <<>>))

\* C5: a step that issues a request issues it with the key, collection
\* name, query and filter the form holds at that moment.
PayloadIsCurrentForm ==
    [][fetched'.count > fetched.count => fetched'.last = FormNow]_vars

\* Two searches with different data were issued, the second one carrying a
\* query and a filter typed into the form.
PayloadIsCurrentFormWitness ==
    /\ fetched.count = 2
    /\ ~fetched.repeated
    /\ fetched.last.query_to_embed = "road"
    /\ fetched.last.sql = "WHERE"

\* C6: the stored api_key and collection_name, the config and (while the
\* drawer shows them) the Settings inputs hold the same values; a key that
\* was never stored reads as the empty string.
SettingsInSync ==
    /\ config.apiKey = Coalesce(localStorage.api_key, "")
    /\ config.collectionName = Coalesce(localStorage.collection_name, "")
    /\ settings.mounted =>
        /\ settings.apiKey = config.apiKey
        /\ settings.collectionName = config.collectionName

\* The drawer is open, and the key a search was made with has been deleted
\* in it since.
SettingsInSyncWitness ==
    /\ settings.mounted
    /\ fetched.count > 0
    /\ settings.apiKey = ""
    /\ localStorage.api_key = ""
    /\ settings.collectionName = "unsplash"
    /\ localStorage.collection_name = "unsplash"

\* C7: a freshly started App has the stored api_key and collection_name in
\* its config, and the empty string for a key that is not stored.
ConfigLoadedAtStart ==
    justStarted =>
        /\ config.apiKey =
               IF localStorage.api_key = NULL THEN "" ELSE localStorage.api_key
        /\ config.collectionName =
               IF localStorage.collection_name = NULL THEN ""
               ELSE localStorage.collection_name

\* The App restarted after a session that made a search and then deleted
\* the collection name: the key is loaded, the collection name is empty.
ConfigLoadedAtStartWitness ==
    /\ justStarted
    /\ fetched.count > 0
    /\ config.apiKey = "key"
    /\ localStorage.collection_name = ""
    /\ config.collectionName = ""

\* C8: after a successful search whose response has a results array, the
\* cards on screen are the records of that array, one card per record, in
\* the array's order.
ResultsShownInOrder ==
    (lastSettled.kind = "ok" /\ lastSettled.results.defined) =>
        LET list == lastSettled.results.list
        IN  /\ results = lastSettled.results
            /\ Len(rendered.cards) = Len(list)
            /\ \A i \in 1..Len(list) :
                /\ rendered.cards[i].photoId = list[i].photo_id
                /\ rendered.cards[i].description = list[i].ai_description

\* A second search succeeded with two records.
ResultsShownInOrderWitness ==
    /\ fetched.count = 2
    /\ lastSettled.kind = "ok"
    /\ lastSettled.results.defined
    /\ Len(lastSettled.results.list) = 2
    /\ Len(rendered.cards) = 2

\* C9: the requests issued are exactly the runs of triggerSearch that
\* passed its check, one request per run.
OneRequestPerTrigger == fetched.count = triggers

\* The same search was made twice, and the second one failed and is not
\* pending again.
OneRequestPerTriggerWitness ==
    /\ fetched.count = 2
    /\ fetched.repeated
    /\ lastSettled.kind = "failed"
    /\ network = <<>>

\* C10: with a key and a collection name and nothing in flight,
\* triggerSearch issues a request carrying the form's query and filter,
\* whatever they are.
TextAndFilterOptional ==
    (/\ config.apiKey # ""
     /\ config.collectionName # ""
     /\ network = <<>>
     /\ fetched.count < MaxFetches) =>
        ENABLED (/\ TriggerSearch
                 /\ Len(network') = 1
                 /\ network'[1].data.query_to_embed = query
                 /\ network'[1].data.sql = sql)

\* A request is in flight with an empty query and an empty filter.
TextAndFilterOptionalWitness ==
    /\ Len(network) = 1
    /\ network[1].data.query_to_embed = ""
    /\ network[1].data.sql = ""

\* C11: over a network that settles every request, a search that was
\* started finishes: loading, once true, becomes false again, and so does
\* the spinner.
SearchFinishes == loading ~> (~loading /\ ~rendered.spinner)

\* A search has succeeded, loading is false again and the Search button is
\* enabled.
SearchFinishesWitness ==
    /\ lastSettled.kind = "ok"
    /\ ~loading
    /\ ~rendered.disabled

\* C12: a step that starts a search, and a step in which a search fails,
\* leave the results state and the cards on screen as they were.
FailureKeepsResults ==
    [][(\/ fetched'.count > fetched.count
        \/ (Len(network') < Len(network) /\ lastSettled'.kind = "failed"))
       => (/\ results' = results
           /\ rendered'.cards = rendered.cards)]_vars

\* A search has failed while the two records of the search before it are
\* still on screen, next to the error message.
FailureKeepsResultsWitness ==
    /\ fetched.count = 2
    /\ lastSettled.kind = "failed"
    /\ results.defined
    /\ Len(results.list) = 2
    /\ Len(rendered.cards) = 2
    /\ rendered.error # NULL

\* C13: the error state is non-null, and an error line is on screen,
\* exactly when the most recent search has failed and no search was
\* started after it.
ErrorIffLastSearchFailed ==
    /\ (error # NULL) <=> (lastSettled.kind = "failed")
    /\ (rendered.error # NULL) <=> (lastSettled.kind = "failed")

\* Where the Button component forwards `disabled`, the error is non-null
\* exactly when the most recent search has failed.
ErrorIffLastSearchFailedWhenForwarded ==
    buttonMode = "forwarded" => ErrorIffLastSearchFailed

\* C14: with the drawer closed and no request in flight, the Search button
\* is enabled exactly when the config holds a key and a collection name.
ButtonReflectsSettings ==
    (~isOpen /\ network = <<>>) =>
        (~ButtonDisabled <=>
            (config.apiKey # "" /\ config.collectionName # ""))

\* With the drawer closed and no request in flight, the `disabled` prop
\* App last rendered is false exactly when the config holds a key and a
\* collection name.
RenderedPropReflectsSettings ==
    (~isOpen /\ network = <<>>) =>
        (~rendered.disabled <=>
            (config.apiKey # "" /\ config.collectionName # ""))

====
